---- MODULE Spec2Model ----
(***************************************************************************)
(* school-watch: watcher.py.  One run of main() reads sources.txt,         *)
(* state.json and subscriptions.xlsx, fetches every source in turn,        *)
(* compares the fingerprint of the normalised page with the stored one,    *)
(* writes state.json back, sends the operator summary and then one mail    *)
(* per subscriber.  The external scheduler starts the next run after the   *)
(* previous one has ended.                                                 *)
(***************************************************************************)
EXTENDS Integers, Sequences, FiniteSets, TLC

VARIABLES
    pc,                 \* position of main(): see the actions
    exit,               \* how the last run ended: "ok" or the error that ended it
    run,                \* number of runs started; also the clock int(time.time())
    file,               \* state.json: whether it exists and the dict in it
    env,                \* os.environ as the process has read it
    sources,            \* main: sources
    state,              \* main: state (dict url -> record)
    school_to_emails,   \* main: school_to_emails
    i,                  \* index of the next item of the for loop of line 245
    updates_by_school,  \* main: updates_by_school, as the sequence of appends
    failures,           \* main: failures
    recipients,         \* keys of email_to_school_urls in iteration order
    j,                  \* index of the next recipient of the loop of line 287
    outbox,             \* every send_email_to call of the run, with its result
    loaded,             \* history: the dict load_state returned in this run
    outcomes,           \* history: one entry per finished loop iteration
    saves,              \* history: number of save_state calls of this run
    lastGood,           \* history: url -> fingerprint of its last successful fetch
    outage,             \* history: url -> failed fetches since the last success
    workbook,           \* history: the subscriptions.xlsx the run read
    total,              \* Retry.total left for the request in progress
    attempts,           \* the responses the request in progress has had so far
    input,              \* argument of the function under study
    output              \* its result, or what an observer of state.json read

vars == << pc, exit, run, file, env, sources, state, school_to_emails, i,
           updates_by_school, failures, recipients, j, outbox,
           loaded, outcomes, saves, lastGood, outage,
           workbook, total, attempts, input, output >>

\* what main() does not touch when fetch() is taken as one step
aux == << total, attempts, input, output >>

-----------------------------------------------------------------------------
(* Bounds of the model *)

MaxRuns == 3
MaxLines == 2

(* Python values *)

None == 0                      \* Python None where a fingerprint is expected
NoKey == "<no key>"            \* the record has no "error" key
Unset == "<unset>"             \* the environment variable is not set

Urls == { "https://a.edu/news", "https://b.edu/news" }
Emails == { "s1@x.org", "s2@x.org" }
Errors == { "timed out" }

-----------------------------------------------------------------------------
(* Sequences *)

Range(s) == { s[k] : k \in 1..Len(s) }

Take(s, n) == SubSeq(s, 1, IF Len(s) < n THEN Len(s) ELSE n)

SeqsUpTo(S, n) == UNION { [1..k -> S] : k \in 0..n }

RECURSIVE Dedup(_)
\* the keys of a dict in insertion order, given the sequence of insertions
Dedup(s) ==
    IF s = << >> THEN << >>
    ELSE LET init == Dedup(SubSeq(s, 1, Len(s) - 1))
             last == s[Len(s)]
         IN  IF last \in Range(init) THEN init ELSE Append(init, last)

(* dict.get(key, {}).get("fp") and dict[key] = value *)

GetFp(d, url) == IF url \in DOMAIN d THEN d[url].fp ELSE None

Put(d, url, rec) == [u \in (DOMAIN d) \cup {url} |-> IF u = url THEN rec ELSE d[u]]

EmptyDict == [u \in {} |-> None]

-----------------------------------------------------------------------------
(* fetch, normalize_html, fingerprint *)

\* A page is the sequence of its text lines; "<script>" stands for a line
\* that lies inside a script/style/noscript element.
HtmlDocs ==
    { << "item a" >>,
      << "<script>", " item a ", "  " >>,
      << "item a", "item b" >> }

\* str.strip() on the lines that occur
Strip(ln) ==
    CASE ln = " item a " -> "item a"
      [] ln = " item b " -> "item b"
      [] ln = "  "       -> ""
      [] ln = " 1 "      -> "1"
      [] OTHER           -> ln

LineCap == 400

IsNoiseTag(ln) == ln = "<script>"

IsText(ln) == Strip(ln) # ""

normalize_html(html) ==
    LET text  == SelectSeq(html, LAMBDA ln : ~IsNoiseTag(ln))
        kept  == SelectSeq(text, IsText)
        lines == [k \in 1..Len(kept) |-> Strip(kept[k])]
    IN  Take(lines, LineCap)

LineCode(ln) == IF ln = "item a" THEN 1 ELSE 2

RECURSIVE Digest(_)
Digest(content) ==
    IF content = << >> THEN 0
    ELSE LineCode(content[1]) + 3 * Digest(SubSeq(content, 2, Len(content)))

\* hashlib.sha256(...).hexdigest(): a digest is never empty (never falsy) and
\* distinct contents have distinct digests; the digest is written as a
\* positive number, an injective code of the content.
fingerprint(content) == 1 + Digest(content)

\* make_session, lines 39-45
RetryTotal == 3

\* what fetch() can do for one source: return a page or raise
FetchResults ==
    { [ok |-> TRUE, html |-> h, error |-> NoKey] : h \in HtmlDocs } \cup
    { [ok |-> FALSE, html |-> << >>, error |-> e] : e \in Errors }

-----------------------------------------------------------------------------
(* load_sources *)

\* A line of sources.txt is the sequence of its whitespace-separated fields.
IsComment(parts) == parts # << >> /\ parts[1] = "#"

load_sources(lines) ==
    LET keep(parts) == parts # << >> /\ ~IsComment(parts) /\ Len(parts) >= 2
        kept == SelectSeq(lines, keep)
    IN  [k \in 1..Len(kept) |-> [name |-> kept[k][1], url |-> kept[k][2]]]

\* The contents sources.txt can have: no source at all, one, two, one url
\* under two names, one line twice.
SourceFiles ==
    { << << "#", "Beta", "https://a.edu/news" >>, << >> >>,
      << << "Alpha", "https://a.edu/news" >> >>,
      << << "Alpha", "https://a.edu/news" >>, << >>, << "Beta", "https://b.edu/news" >> >>,
      << << "Alpha", "https://b.edu/news" >>, << "Beta" >>, << "Beta", "https://b.edu/news" >> >>,
      << << "Alpha", "https://a.edu/news" >>, << "Alpha", "https://a.edu/news" >> >> }

\* what load_sources returns for them
SourceLists == { load_sources(f) : f \in SourceFiles }

-----------------------------------------------------------------------------
(* load_subscriptions *)

\* A workbook is its header row and its data rows; a row maps a column
\* number to a cell.  An empty cell is "" (falsy, like None); the schools
\* cell is the sequence of its labels and separators.
Upper(s) ==
    CASE s = "active"  -> "ACTIVE"
      [] s = " Active " -> " ACTIVE "
      [] OTHER          -> s

StripCell(s) ==
    CASE s = " ACTIVE "  -> "ACTIVE"
      [] s = " Alpha "   -> "Alpha"
      [] s = " Beta "    -> "Beta"
      [] s = " s1@x.org " -> "s1@x.org"
      [] s = " "         -> ""
      [] OTHER           -> s

IsSeparator(tok) == tok \in { ",", "<fullwidth comma>" }

\* raw.replace(fullwidth comma, ",").split(","), stripped, empties dropped
SchoolList(cell) ==
    LET toks == SelectSeq(cell, LAMBDA t : ~IsSeparator(t) /\ StripCell(t) # "")
    IN  [k \in 1..Len(toks) |-> StripCell(toks[k])]

RequiredColumns == { "email", "schools", "status" }

HeaderIndex(header) ==
    [c \in { StripCell(header[k]) : k \in { x \in 1..Len(header) : header[x] # "" } }
        |-> CHOOSE k \in 1..Len(header) :
               /\ header[k] # "" /\ StripCell(header[k]) = c
               /\ \A m \in 1..Len(header) :
                     (header[m] # "" /\ StripCell(header[m]) = c) => m <= k]

HeaderOk(header) == RequiredColumns \subseteq DOMAIN HeaderIndex(header)

RowActive(wb, row) ==
    LET h == HeaderIndex(wb.header)
    IN  /\ row[h["email"]] # ""
        /\ row[h["schools"]] # << >>
        /\ StripCell(Upper(row[h["status"]])) = "ACTIVE"

load_subscriptions(wb) ==
    LET h    == HeaderIndex(wb.header)
        rows == SelectSeq(wb.rows, LAMBDA r : RowActive(wb, r))
    IN  [s \in UNION { Range(SchoolList(rows[k][h["schools"]])) : k \in 1..Len(rows) }
            |-> { StripCell(rows[k][h["email"]]) :
                    k \in { x \in 1..Len(rows) :
                              s \in Range(SchoolList(rows[x][h["schools"]])) } }]

\* school_to_emails.get(school, set())
Subscribers(s2e, school) == IF school \in DOMAIN s2e THEN s2e[school] ELSE {}

Workbooks ==
    { [header |-> << "email", "schools", "status" >>,
       rows   |-> << << "s1@x.org", << "Alpha" >>, "ACTIVE" >>,
                     << "s2@x.org", << "Alpha", "<fullwidth comma>", " Beta " >>, "active" >> >>],
      [header |-> << "email", "schools", "status" >>,
       rows   |-> << << " s1@x.org ", << "Beta", ",", " " >>, " Active " >>,
                     << "s2@x.org", << "Alpha" >>, "PAUSED" >>,
                     << "", << "Alpha" >>, "ACTIVE" >> >>],
      [header |-> << "email", "schools" >>,
       rows   |-> << << "s1@x.org", << "Alpha" >> >> >>] }

\* nothing read yet, or no subscriptions.xlsx
NoWorkbook == [header |-> << >>, rows |-> << >>]

\* load_subscriptions, tabulated over the workbooks it accepts
SubscriptionsOf ==
    [wb \in { w \in Workbooks : HeaderOk(w.header) } |-> load_subscriptions(wb)]

\* what load_subscriptions returns for those it accepts
SubscriptionMaps == { load_subscriptions(wb) : wb \in { w \in Workbooks : HeaderOk(w.header) } }


-----------------------------------------------------------------------------
(* load_state, save_state *)

NoFile == [exists |-> FALSE, data |-> EmptyDict]

\* faulty variant: the stored state is not read back
load_state_Forgets(f) == EmptyDict

load_state(f) == IF ~f.exists THEN EmptyDict ELSE f.data

\* faulty variant: state.json is written only when something changed
save_state_OnChangeOnly(st) ==
    IF updates_by_school = << >> THEN file ELSE [exists |-> TRUE, data |-> st]

\* faulty variant: only the records of the current source list are written
save_state_CurrentOnly(st) ==
    [exists |-> TRUE,
     data   |-> [u \in { x \in DOMAIN st : \E k \in 1..Len(sources) : sources[k].url = x }
                    |-> st[u]]]

save_state(st) == [exists |-> TRUE, data |-> st]

-----------------------------------------------------------------------------
(* the change detector of the loop body *)

\* line 253: if old_fp and old_fp != fp
IsChange(old_fp, fp) == old_fp # None /\ old_fp # fp

\* line 256
OkRecord(fp, now) == [fp |-> fp, ts |-> now, error |-> NoKey]

\* faulty variant: a failure clears the stored fingerprint
FailRecord_Clears(st, url, err, now) == [fp |-> None, ts |-> now, error |-> err]

\* lines 259-263
FailRecord(st, url, err, now) == [fp |-> GetFp(st, url), ts |-> now, error |-> err]

\* updates_by_school.setdefault(name, []).append(url)
AddUpdate(updates, name, url) == Append(updates, [name |-> name, url |-> url])

UpdatedSchools(updates) == Dedup([k \in 1..Len(updates) |-> updates[k].name])

\* faulty variant: only the first changed url of a school is kept
UrlsOf_FirstOnly(updates, school) ==
    LET hit == SelectSeq(updates, LAMBDA e : e.name = school)
    IN  IF hit = << >> THEN << >> ELSE << hit[1].url >>

UrlsOf(updates, school) ==
    LET hit == SelectSeq(updates, LAMBDA e : e.name = school)
    IN  [k \in 1..Len(hit) |-> hit[k].url]

-----------------------------------------------------------------------------
(* send_email_to, send_summary_email *)

AlwaysValues == { Unset, "1", " 1 " }
TestToValues == { Unset, "op@x.org" }

\* ALWAYS_SEND_SUMMARY and TEST_MAIL_TO are read at lines 79-80, SMTP_USER
\* and SMTP_PASS in each send_email_to (lines 58-59); the environment of a
\* process does not change, so what was read once is read again.
NotRead == "<not read>"

EnvNotRead == [always |-> NotRead, test_to |-> NotRead, credentials |-> NotRead]

SummaryEnvs(e) ==
    { [e EXCEPT !.always = a, !.test_to = t] : a \in AlwaysValues, t \in TestToValues }

CredentialEnvs(e) ==
    IF e.credentials = NotRead
    THEN { [e EXCEPT !.credentials = c] : c \in { "set", "missing" } }
    ELSE { e }

GetEnv(v, default) == IF v = Unset THEN default ELSE v

\* faulty variant: the ALWAYS_SEND_SUMMARY switch is not consulted
SummaryWanted_NoSwitch(e) == Strip(GetEnv(e.test_to, "")) # ""

\* lines 79-90
SummaryWanted(e) ==
    /\ Strip(GetEnv(e.always, "")) = "1"
    /\ Strip(GetEnv(e.test_to, "")) # ""

FailurePreview == 10

\* what one call of send_email_to can do: raise RuntimeError for missing
\* credentials (line 61), raise from smtplib (lines 68-70), or return
SendResults(e) ==
    IF e.credentials = "missing" THEN { "no credentials" } ELSE { "sent", "smtp error" }

\* line 70: server.sendmail(smtp_user, [to_email], ...)
Envelope(to_email) == << to_email >>

SummaryMail(e, updates, fails, result) ==
    [kind    |-> "summary",
     to      |-> Strip(GetEnv(e.test_to, "")),
     rcpts   |-> Envelope(Strip(GetEnv(e.test_to, ""))),
     updated |-> UpdatedSchools(updates),
     failed  |-> Take(fails, FailurePreview),
     nfailed |-> Len(fails),
     items   |-> << >>,
     result  |-> result]

\* faulty variant: every updated school goes to every recipient
SchoolMap_All(updates, s2e, em) ==
    [k \in 1..Len(UpdatedSchools(updates)) |->
        [school |-> UpdatedSchools(updates)[k],
         urls   |-> UrlsOf(updates, UpdatedSchools(updates)[k])]]

\* email_to_school_urls[em], lines 277-280
SchoolMap(updates, s2e, em) ==
    LET mine == SelectSeq(UpdatedSchools(updates),
                          LAMBDA school : em \in Subscribers(s2e, school))
    IN  [k \in 1..Len(mine) |-> [school |-> mine[k], urls |-> UrlsOf(updates, mine[k])]]

Matched(updates, s2e) ==
    UNION { Subscribers(s2e, school) : school \in Range(UpdatedSchools(updates)) }

FirstSchool(updates, s2e, em) ==
    CHOOSE k \in 1..Len(UpdatedSchools(updates)) :
        /\ em \in Subscribers(s2e, UpdatedSchools(updates)[k])
        /\ \A m \in 1..(k - 1) : em \notin Subscribers(s2e, UpdatedSchools(updates)[m])

\* The iteration orders email_to_school_urls can have: a key is inserted at
\* the first updated school its address subscribes to; the order inside one
\* school's set of addresses is the set's.
RecipientOrders(updates, s2e) ==
    LET R == Matched(updates, s2e)
    IN  { r \in [1..Cardinality(R) -> R] :
            /\ \A a, b \in 1..Cardinality(R) : r[a] = r[b] => a = b
            /\ \A a, b \in 1..Cardinality(R) :
                  FirstSchool(updates, s2e, r[a]) < FirstSchool(updates, s2e, r[b])
                     => a < b }

SubscriberMail(updates, s2e, em, result) ==
    [kind    |-> "subscriber",
     to      |-> em,
     rcpts   |-> Envelope(em),
     updated |-> << >>,
     failed  |-> << >>,
     nfailed |-> 0,
     items   |-> SchoolMap(updates, s2e, em),
     result  |-> result]

\* an exception that leaves send_email_to is caught nowhere in main
ExitOf(result) ==
    CASE result = "sent"           -> "ok"
      [] result = "no credentials" -> "credentials error"
      [] OTHER                     -> "send error"


-----------------------------------------------------------------------------
(* main *)

Init ==
    /\ pc = "idle"
    /\ exit = "none"
    /\ run = 0
    /\ file = NoFile
    /\ env = EnvNotRead
    /\ sources = << >>
    /\ state = EmptyDict
    /\ school_to_emails = EmptyDict
    /\ i = 1
    /\ updates_by_school = << >>
    /\ failures = << >>
    /\ recipients = << >>
    /\ j = 1
    /\ outbox = << >>
    /\ loaded = EmptyDict
    /\ outcomes = << >>
    /\ saves = 0
    /\ lastGood = [u \in Urls |-> None]
    /\ outage = [u \in Urls |-> 0]
    /\ workbook = NoWorkbook
    /\ total = RetryTotal
    /\ attempts = << >>
    /\ input = << >>
    /\ output = << >>

\* the process starts with nothing in memory
FreshProcess ==
    /\ run' = run + 1
    /\ env' = EnvNotRead
    /\ updates_by_school' = << >>
    /\ failures' = << >>
    /\ recipients' = << >>
    /\ i' = 1
    /\ j' = 1
    /\ outbox' = << >>
    /\ outcomes' = << >>
    /\ saves' = 0

\* faulty variant: a handler saves the state when loading fails
FileAfterAbort_Saves(f) == save_state(load_state(f))

\* the exception of lines 238-240 leaves main: nothing is written
FileAfterAbort(f) == f

\* lines 238-240 raise: sources.txt is missing (open, line 177),
\* subscriptions.xlsx is missing (line 201) or lacks a column (line 213)
StartupFail ==
    /\ pc = "idle"
    /\ run < MaxRuns
    /\ \E cause \in { "no sources.txt", "no subscriptions.xlsx", "no column" } :
          \E items \in SourceLists :
             /\ cause = "no sources.txt" => items = << >>
             /\ \E wb \in Workbooks \cup { NoWorkbook } :
                   /\ cause = "no column" <=> (wb # NoWorkbook /\ ~HeaderOk(wb.header))
                   /\ cause # "no column" => wb = NoWorkbook
                   /\ workbook' = wb
             /\ sources' = items
             /\ state' = IF cause = "no sources.txt" THEN EmptyDict ELSE load_state(file)
    /\ FreshProcess
    /\ loaded' = state'
    /\ school_to_emails' = EmptyDict
    /\ pc' = "idle"
    /\ exit' = "startup error"
    /\ file' = FileAfterAbort(file)
    /\ UNCHANGED << lastGood, outage >>
    /\ UNCHANGED aux

\* lines 238-243
Startup ==
    /\ pc = "idle"
    /\ run < MaxRuns
    /\ \E items \in SourceLists, wb \in Workbooks :
          /\ HeaderOk(wb.header)
          /\ sources' = items
          /\ workbook' = wb
          /\ school_to_emails' = SubscriptionsOf[wb]
    /\ state' = load_state(file)
    /\ loaded' = state'
    /\ FreshProcess
    /\ pc' = "loop"
    /\ exit' = "none"
    /\ UNCHANGED << file, lastGood, outage >>
    /\ UNCHANGED aux

\* what one iteration did: old is the fingerprint it found stored, rec the
\* record it left in state, events the length of the update list after it
Outcome(item, ok, fp, old_fp, err, rec, events) ==
    [name |-> item.name, url |-> item.url, ok |-> ok, fp |-> fp, old |-> old_fp,
     error |-> err, rec |-> rec, events |-> events,
     good |-> lastGood[item.url], outage |-> outage[item.url]]

\* lines 246-256: the try block ran to its end
FetchOk ==
    /\ pc = "loop"
    /\ i <= Len(sources)
    /\ \E r \in FetchResults :
          /\ r.ok
          /\ LET item   == sources[i]
                 norm   == normalize_html(r.html)
                 fp     == fingerprint(norm)
                 old_fp == GetFp(state, item.url)
             IN  /\ updates_by_school' =
                        IF IsChange(old_fp, fp)
                        THEN AddUpdate(updates_by_school, item.name, item.url)
                        ELSE updates_by_school
                 /\ state' = Put(state, item.url, OkRecord(fp, run))
                 /\ outcomes' = Append(outcomes,
                                       Outcome(item, TRUE, fp, old_fp, NoKey,
                                               state'[item.url],
                                               Len(updates_by_school')))
                 /\ lastGood' = [lastGood EXCEPT ![item.url] = fp]
                 /\ outage' = [outage EXCEPT ![item.url] = 0]
    /\ i' = i + 1
    /\ UNCHANGED << pc, exit, run, file, env, sources, school_to_emails, failures,
                    recipients, j, outbox, loaded, saves >>
    /\ UNCHANGED << workbook, aux >>

\* faulty variant: the exception of one source ends the run
AfterExcept_Aborts(k) == [pc |-> "idle", i |-> k + 1, exit |-> "fetch error"]

\* the loop goes on with the next item after the except block
AfterExcept(k) == [pc |-> "loop", i |-> k + 1, exit |-> "none"]

\* lines 257-263: fetch or normalize_html raised
FetchFail ==
    /\ pc = "loop"
    /\ i <= Len(sources)
    /\ \E r \in FetchResults :
          /\ ~r.ok
          /\ LET item == sources[i]
             IN  /\ failures' = Append(failures,
                                       [name |-> item.name, url |-> item.url,
                                        error |-> r.error])
                 /\ state' = Put(state, item.url,
                                 FailRecord(state, item.url, r.error, run))
                 /\ outcomes' = Append(outcomes,
                                       Outcome(item, FALSE, None,
                                               GetFp(state, item.url), r.error,
                                               state'[item.url],
                                               Len(updates_by_school)))
                 /\ outage' = [outage EXCEPT ![item.url] = @ + 1]
    /\ pc' = AfterExcept(i).pc
    /\ i' = AfterExcept(i).i
    /\ exit' = AfterExcept(i).exit
    /\ UNCHANGED << run, file, env, sources, school_to_emails, updates_by_school,
                    recipients, j, outbox, loaded, saves, lastGood >>
    /\ UNCHANGED << workbook, aux >>

\* faulty variant: the loop is left before its last item
LoopDone_Early(k, n) == k >= n

\* the for loop of line 245 is over
LoopDone(k, n) == k > n

\* line 265
SaveState ==
    /\ pc = "loop"
    /\ LoopDone(i, Len(sources))
    /\ file' = save_state(state)
    /\ saves' = saves + 1
    /\ pc' = "summary"
    /\ UNCHANGED << exit, run, env, sources, state, school_to_emails, i,
                    updates_by_school, failures, recipients, j, outbox,
                    loaded, outcomes, lastGood, outage >>
    /\ UNCHANGED << workbook, aux >>

\* line 268: send_summary_email(updates_by_school, failures); the process
\* reads its environment here for the first time (lines 79-80, 58-59)
SendSummary ==
    /\ pc = "summary"
    /\ \E e \in SummaryEnvs(env) :
          IF SummaryWanted(e)
          THEN \E ec \in CredentialEnvs(e) : \E result \in SendResults(ec) :
                  /\ env' = ec
                  /\ outbox' = Append(outbox,
                                      SummaryMail(ec, updates_by_school, failures, result))
                  /\ pc' = IF result = "sent" THEN "group" ELSE "idle"
                  /\ exit' = IF result = "sent" THEN exit ELSE ExitOf(result)
          ELSE /\ env' = e
               /\ pc' = "group"
               /\ UNCHANGED << outbox, exit >>
    /\ UNCHANGED << run, file, sources, state, school_to_emails, i,
                    updates_by_school, failures, recipients, j,
                    loaded, outcomes, saves, lastGood, outage >>
    /\ UNCHANGED << workbook, aux >>

\* lines 271-284
Group ==
    /\ pc = "group"
    /\ IF updates_by_school = << >>
       THEN /\ pc' = "idle"
            /\ exit' = "ok"
            /\ UNCHANGED recipients
       ELSE \E order \in RecipientOrders(updates_by_school, school_to_emails) :
               /\ recipients' = order
               /\ pc' = IF order = << >> THEN "idle" ELSE "notify"
               /\ exit' = IF order = << >> THEN "ok" ELSE exit
    /\ UNCHANGED << run, file, env, sources, state, school_to_emails, i,
                    updates_by_school, failures, j, outbox,
                    loaded, outcomes, saves, lastGood, outage >>
    /\ UNCHANGED << workbook, aux >>

\* lines 287-301, one iteration
SendSubscriber ==
    /\ pc = "notify"
    /\ j <= Len(recipients)
    /\ \E ec \in CredentialEnvs(env) : \E result \in SendResults(ec) :
          /\ env' = ec
          /\ outbox' = Append(outbox,
                              SubscriberMail(updates_by_school, school_to_emails,
                                             recipients[j], result))
          /\ pc' = IF result = "sent" /\ j < Len(recipients) THEN "notify" ELSE "idle"
          /\ exit' = IF result = "sent"
                     THEN (IF j < Len(recipients) THEN exit ELSE "ok")
                     ELSE ExitOf(result)
    /\ j' = j + 1
    /\ UNCHANGED << run, file, sources, state, school_to_emails, i,
                    updates_by_school, failures, recipients,
                    loaded, outcomes, saves, lastGood, outage >>
    /\ UNCHANGED << workbook, aux >>

Next ==
    \/ StartupFail
    \/ Startup
    \/ FetchOk
    \/ FetchFail
    \/ SaveState
    \/ SendSummary
    \/ Group
    \/ SendSubscriber

Spec == Init /\ [][Next]_vars


-----------------------------------------------------------------------------
(* Properties *)

Outcomes == Range(outcomes)

\* the fingerprint stored for a url when the run started
StoredAtStart(url) == GetFp(loaded, url)

ChangeEvents == Range(updates_by_school)

Event(o) == [name |-> o.name, url |-> o.url]

\* the urls a mail lists
UrlsIn(m) == UNION { Range(m.items[k].urls) : k \in 1..Len(m.items) }

Persisted == saves = 1

\* C1: a url without a stored fingerprint at the start of the run (no record,
\* or a record left by failed fetches only) that is fetched successfully gets
\* the fresh fingerprint stored, yields no change event and is listed in no
\* mail of the run.
C1_BaselineIsSilent ==
    \A o \in Outcomes :
        (o.ok /\ StoredAtStart(o.url) = None) =>
            /\ GetFp(state, o.url) = o.fp
            /\ o.fp # None
            /\ (Persisted => GetFp(file.data, o.url) = o.fp)
            /\ \A e \in ChangeEvents : e.url # o.url
            /\ \A k \in 1..Len(outbox) : o.url \notin UrlsIn(outbox[k])

\* the fetches of one url in the run, in the order of the source list
FetchesOf(url) == { k \in 1..Len(outcomes) : outcomes[k].url = url }

IsFirstFetch(k) == \A m \in FetchesOf(outcomes[k].url) : k <= m

IsLastFetch(k) == \A m \in FetchesOf(outcomes[k].url) : m <= k

PreviousFetch(k) ==
    CHOOSE m \in FetchesOf(outcomes[k].url) :
        m < k /\ \A n \in FetchesOf(outcomes[k].url) : n < k => n <= m

\* the fingerprint stored for the url of fetch k just before that fetch
StoredBefore(k) ==
    IF IsFirstFetch(k) THEN StoredAtStart(outcomes[k].url)
    ELSE outcomes[PreviousFetch(k)].rec.fp

\* fetch k added an event to the update list, or left the list alone
EventsBefore(k) == IF k = 1 THEN 0 ELSE outcomes[k - 1].events

Emitted(k) ==
    /\ outcomes[k].events = EventsBefore(k) + 1
    /\ outcomes[k].events <= Len(updates_by_school)
    /\ updates_by_school[outcomes[k].events] = Event(outcomes[k])

Silent(k) == outcomes[k].events = EventsBefore(k)

\* C2: when a fetch of a url fails, the fingerprint stored for the
\* url after the run is the one stored before the run.
C2_FingerprintAfterRunAsBefore ==
    \A o \in Outcomes :
        (~o.ok /\ Persisted) => GetFp(file.data, o.url) = StoredAtStart(o.url)

\* C3: for a source fetched successfully while a fingerprint is stored, a
\* change event (label, url) is emitted exactly when the fresh fingerprint
\* differs from the stored one, and the fresh one is what is stored after the
\* run; unchanged content gives the same fingerprint and no event.
C3_ChangeIffDiffers ==
    \A o \in Outcomes :
        (o.ok /\ StoredAtStart(o.url) # None) =>
            /\ (Event(o) \in ChangeEvents) <=> (o.fp # StoredAtStart(o.url))
            /\ Len(SelectSeq(updates_by_school, LAMBDA e : e = Event(o))) <= 1
            /\ GetFp(state, o.url) = o.fp
            /\ (Persisted => GetFp(file.data, o.url) = o.fp)

\* C4: after an outage (one or more failed fetches of a url since its last
\* successful one, which gave fingerprint F), the next successful fetch is
\* compared with F: an event when the fresh fingerprint differs from F, none
\* when it equals F, and never a first-seen baseline.
C4_OutageKeepsBaseline ==
    \A k \in 1..Len(outcomes) :
        LET o == outcomes[k]
        IN  (o.ok /\ o.good # None /\ o.outage >= 1) =>
              /\ o.old = o.good
              /\ StoredBefore(k) = o.good
              /\ IF o.fp # o.good THEN Emitted(k) ELSE Silent(k)

C4_Witness ==
    \E o \in Outcomes :
        /\ o.ok /\ o.good # None /\ o.outage >= 1
        /\ o.fp # o.good
        /\ loaded[o.url].ts = run - 1


FailureOf(o) == [name |-> o.name, url |-> o.url, error |-> o.error]

FetchingStarted == outcomes # << >>

FailedFetches == SelectSeq(outcomes, LAMBDA o : ~o.ok)

\* C5: a failure of one source does not end the loop: a run that fetched
\* anything ends with one outcome per source, in order, each either a stored
\* fresh fingerprint or a failure entry and not both, and state.json holds a
\* record written in this run for every source, the failed ones included.
C5_EverySourceGetsOneOutcome ==
    /\ pc = "loop" => (Len(outcomes) = i - 1 /\ i <= Len(sources) + 1)
    /\ failures = [n \in 1..Len(FailedFetches) |-> FailureOf(FailedFetches[n])]
    /\ (FetchingStarted /\ pc # "loop") =>
          /\ Persisted
          /\ Len(outcomes) = Len(sources)
          /\ \A k \in 1..Len(sources) :
                LET o == outcomes[k]
                IN  /\ o.name = sources[k].name /\ o.url = sources[k].url
                    /\ o.ok <=> (o.fp # None /\ o.error = NoKey)
                    /\ o.ok => o.rec = [fp |-> o.fp, ts |-> run, error |-> NoKey]
                    /\ ~o.ok => (o.rec.error = o.error /\ o.rec.ts = run)
                    /\ o.url \in DOMAIN file.data
                    /\ file.data[o.url].ts = run
                    /\ IsLastFetch(k) => file.data[o.url] = o.rec

C5_Witness ==
    /\ pc = "idle"
    /\ Len(sources) = 2
    /\ Len(outcomes) = 2
    /\ ~outcomes[1].ok
    /\ outcomes[2].ok
    /\ file.data[sources[1].url].ts = run
    /\ file.data[sources[2].url].ts = run

\* the run got past start-up and left the loop
LoopLeft ==
    \/ pc \in { "summary", "group", "notify" }
    \/ pc = "idle" /\ exit \in { "ok", "credentials error", "send error" }

\* C6: a run saves the state exactly once, after the fetches of all its
\* sources have resolved, whether or not anything changed or failed.
C6_SavedOnceAfterAllFetches ==
    /\ saves <= 1
    /\ pc = "loop" => saves = 0
    /\ LoopLeft => saves = 1
    /\ saves = 1 => (Len(outcomes) = Len(sources) /\ file = [exists |-> TRUE, data |-> state])

C6_Witness ==
    /\ pc = "idle" /\ exit = "ok"
    /\ saves = 1
    /\ Len(sources) = 2
    /\ updates_by_school = << >>
    /\ failures # << >>
    /\ file.exists /\ ~(\E u \in DOMAIN loaded : TRUE)

\* the fetches that found another fingerprint stored than the one they got
ChangedOutcomes == { o \in Outcomes : o.ok /\ o.old # None /\ o.fp # o.old }

FailedOutcomes == { o \in Outcomes : ~o.ok }

\* C7: every send, of the summary or to a subscriber, successful or not, is
\* attempted when all fetches have resolved and state.json holds the record
\* of every outcome of the run; the mail is built from all those outcomes.
C7_SendsAfterSaveOfAllOutcomes ==
    \A k \in 1..Len(outbox) :
        LET m == outbox[k]
        IN  /\ Len(outcomes) = Len(sources)
            /\ file.exists
            /\ \A n \in 1..Len(outcomes) :
                  /\ outcomes[n].url \in DOMAIN file.data
                  /\ IsLastFetch(n) => file.data[outcomes[n].url] = outcomes[n].rec
            /\ m.kind = "summary" =>
                  /\ Range(m.updated) = { o.name : o \in ChangedOutcomes }
                  /\ m.nfailed = Cardinality(FailedOutcomes)
                  /\ Range(m.failed) = { FailureOf(o) : o \in FailedOutcomes }
            /\ m.kind = "subscriber" =>
                  UrlsIn(m) = { o.url : o \in { c \in ChangedOutcomes :
                                   m.to \in Subscribers(school_to_emails, c.name) } }

C7_Witness ==
    /\ pc = "idle"
    /\ \E k \in 1..Len(outbox) :
          outbox[k].kind = "subscriber" /\ outbox[k].result = "smtp error"
    /\ failures # << >>
    /\ \E u \in DOMAIN file.data : file.data[u].error # NoKey /\ file.data[u].fp # None

\* C8: a run in which a send fails at the mail transport still ends normally.
C8_SendFailureDoesNotFailRun ==
    (pc = "idle" /\ \E k \in 1..Len(outbox) : outbox[k].result = "smtp error")
        => exit = "ok"

\* the addresses subscribed to a school with a change event
Due == Matched(updates_by_school, school_to_emails)

AttemptsTo(em) ==
    Len(SelectSeq(outbox, LAMBDA m : m.kind = "subscriber" /\ m.to = em))

\* C9: when a run has ended, every recipient due a notification has had a
\* send attempted, whatever became of the summary or of the sends to others,
\* and nobody has had two (stated for runs with SMTP credentials, whose
\* absence is a configuration error).
C9_EveryDueRecipientAttempted ==
    (pc = "idle" /\ saves = 1 /\ exit # "credentials error") =>
        /\ \A em \in Due : AttemptsTo(em) >= 1
        /\ \A em \in Emails : AttemptsTo(em) <= 1

\* the always-send override is off: ALWAYS_SEND_SUMMARY is not 1 (blanks
\* around it aside) or TEST_MAIL_TO is not set
OverrideDisabled ==
    \/ env.always \notin { "1", " 1 " }
    \/ env.test_to \in { Unset, NotRead }

\* C10: no mail of any kind is sent in a run with no change event while the
\* always-send override is off, however many fetches failed.
C10_NoMailWithoutChanges ==
    (updates_by_school = << >> /\ OverrideDisabled) => outbox = << >>

C10_Witness ==
    /\ pc = "idle" /\ exit = "ok"
    /\ updates_by_school = << >>
    /\ Len(failures) = 2
    /\ env.always = "1" /\ env.test_to = Unset
    /\ outbox = << >>


-----------------------------------------------------------------------------
(* Subscriptions, as the workbook states them *)

HasColumns(wb) ==
    \A c \in { "email", "schools", "status" } : \E k \in 1..Len(wb.header) : wb.header[k] = c

ColumnOf(wb, c) == CHOOSE k \in 1..Len(wb.header) : wb.header[k] = c

\* ACTIVE, whatever the case and the blanks around it
IsActiveStatus(st) == st \in { "ACTIVE", "active", " Active ", " ACTIVE " }

\* the labels of a schools cell: what stands between the commas, trimmed
LabelsIn(cell) ==
    { StripCell(cell[k]) :
        k \in { x \in 1..Len(cell) : cell[x] \notin { ",", "<fullwidth comma>" } } }
    \ { "" }

ActiveSubscription(wb, em, label) ==
    /\ HasColumns(wb)
    /\ \E k \in 1..Len(wb.rows) :
          LET row == wb.rows[k]
          IN  /\ row[ColumnOf(wb, "email")] # ""
              /\ StripCell(row[ColumnOf(wb, "email")]) = em
              /\ IsActiveStatus(row[ColumnOf(wb, "status")])
              /\ label \in LabelsIn(row[ColumnOf(wb, "schools")])

SubscriberMails == { k \in 1..Len(outbox) : outbox[k].kind = "subscriber" }

\* C11: a subscriber mail goes to one address, its own; every url in it is
\* of a source that changed in this run under a label the recipient holds
\* an ACTIVE subscription to.
C11_MailOnlyOwnSubscriptions ==
    \A k \in SubscriberMails :
        LET m == outbox[k]
        IN  /\ Len(m.rcpts) = 1
            /\ m.rcpts[1] = m.to
            /\ m.to \in Emails
            /\ \A n \in 1..Len(m.items) :
                  /\ ActiveSubscription(workbook, m.to, m.items[n].school)
                  /\ \A u \in Range(m.items[n].urls) :
                        \E o \in ChangedOutcomes :
                            o.url = u /\ o.name = m.items[n].school

C11_Witness ==
    /\ Cardinality({ e.name : e \in ChangeEvents }) = 2
    /\ \E k \in SubscriberMails :
          /\ outbox[k].result = "sent"
          /\ Len(outbox[k].items) = 1
          /\ \E n \in SubscriberMails : outbox[n].to # outbox[k].to

\* the changes of the run under a label a recipient is subscribed to
DueChanges(em) ==
    { k \in 1..Len(outcomes) :
        /\ outcomes[k] \in ChangedOutcomes
        /\ ActiveSubscription(workbook, em, outcomes[k].name) }

\* the changed urls a recipient is subscribed to
DueUrls(em) ==
    { o.url : o \in { c \in ChangedOutcomes : ActiveSubscription(workbook, em, c.name) } }

ListedUrls(m) ==
    LET RECURSIVE Total(_)
        Total(n) == IF n = 0 THEN 0 ELSE Len(m.items[n].urls) + Total(n - 1)
    IN  Total(Len(m.items))

NoSendFailed ==
    /\ pc = "idle"
    /\ saves = 1
    /\ \A k \in 1..Len(outbox) : outbox[k].result = "sent"

\* C12: in a run where no send fails, a recipient with a changed subscribed
\* label gets exactly one mail, listing the url of each change of the labels
\* subscribed to once; nobody else gets one, and the run ends normally even
\* when a changed label has no subscriber.
C12_OneMailPerDueRecipient ==
    NoSendFailed =>
        /\ exit = "ok"
        /\ \A em \in Emails :
              LET mine == { k \in SubscriberMails : outbox[k].to = em }
              IN  /\ Cardinality(mine) = IF DueUrls(em) = {} THEN 0 ELSE 1
                  /\ \A k \in mine :
                        /\ UrlsIn(outbox[k]) = DueUrls(em)
                        /\ ListedUrls(outbox[k]) = Cardinality(DueChanges(em))
        /\ \A k \in SubscriberMails : outbox[k].to \in Emails

C12_Witness ==
    /\ NoSendFailed
    /\ Cardinality(SubscriberMails) = 2
    /\ \E k \in SubscriberMails : Cardinality(UrlsIn(outbox[k])) = 2


-----------------------------------------------------------------------------
(* load_sources on its own *)

\* lines of sources.txt, also with urls of other schemes or of none
RawSourceLines ==
    { << "Alpha", "https://a.edu/news" >>,
      << "Beta", "http://b.edu/news" >>,
      << "Beta", "ftp://c.edu/news" >>,
      << "Alpha", "a.edu/news" >>,
      << "Alpha", "https://a.edu/news", "extra" >>,
      << >>,
      << "#", "Beta", "https://a.edu/news" >>,
      << "Beta" >> }

InitSources ==
    /\ pc = "call"
    /\ input \in SeqsUpTo(RawSourceLines, MaxLines)
    /\ output = << >>
    /\ exit = "none"
    /\ run = 0
    /\ file = NoFile
    /\ env = EnvNotRead
    /\ sources = << >>
    /\ state = EmptyDict
    /\ school_to_emails = EmptyDict
    /\ i = 1
    /\ updates_by_school = << >>
    /\ failures = << >>
    /\ recipients = << >>
    /\ j = 1
    /\ outbox = << >>
    /\ loaded = EmptyDict
    /\ outcomes = << >>
    /\ saves = 0
    /\ lastGood = [u \in Urls |-> None]
    /\ outage = [u \in Urls |-> 0]
    /\ workbook = NoWorkbook
    /\ total = RetryTotal
    /\ attempts = << >>

\* line 238: sources = load_sources()
LoadSources ==
    /\ pc = "call"
    /\ output' = load_sources(input)
    /\ sources' = output'
    /\ pc' = "returned"
    /\ UNCHANGED << exit, run, file, env, state, school_to_emails, i,
                    updates_by_school, failures, recipients, j, outbox, loaded,
                    outcomes, saves, lastGood, outage, workbook, total, attempts,
                    input >>

NextSources == LoadSources

SpecSources == InitSources /\ [][NextSources]_vars

\* urlparse(url).scheme of the urls that occur
SchemeOf(url) ==
    CASE url = "https://a.edu/news" -> "https"
      [] url = "https://b.edu/news" -> "https"
      [] url = "http://b.edu/news"  -> "http"
      [] url = "ftp://c.edu/news"   -> "ftp"
      [] OTHER                      -> ""

\* C13: every item load_sources returns has a url with the scheme http or
\* https.
C13_OnlyHttpUrlsKept ==
    pc = "returned" =>
        \A k \in 1..Len(output) : SchemeOf(output[k].url) \in { "http", "https" }

-----------------------------------------------------------------------------

\* C14: a run that a configuration error ends at start-up has fetched
\* nothing, sent nothing and left state.json as it was; and no run goes on
\* to fetch with a workbook that lacks a required column.
C14_StartupErrorAbortsCleanly ==
    [][ /\ exit' = "startup error" =>
              /\ pc' = "idle"
              /\ file' = file
              /\ outcomes' = << >>
              /\ outbox' = << >>
              /\ saves' = 0
        /\ pc' = "loop" => HasColumns(workbook') ]_vars

C14_Witness ==
    /\ exit = "startup error"
    /\ file.exists
    /\ workbook # NoWorkbook
    /\ sources # << >>
    /\ run = 2


-----------------------------------------------------------------------------
(* load_subscriptions on its own *)

MaxRows == 2

EmailCells == { " s1@x.org ", "s2@x.org", "", " " }

SchoolsCells ==
    { << >>,
      << "Alpha" >>,
      << "Alpha", "<fullwidth comma>", " Beta ", ",", " " >> }

StatusCells == { "ACTIVE", "active", " Active ", "PAUSED" }

\* the data rows of a sheet whose first row is email | schools | status
SheetRows == { << e, s, t >> : e \in EmailCells, s \in SchoolsCells, t \in StatusCells }

InitSubs ==
    /\ pc = "call"
    /\ \E rows \in SeqsUpTo(SheetRows, MaxRows) :
          workbook = [header |-> << "email", "schools", "status" >>, rows |-> rows]
    /\ school_to_emails = EmptyDict
    /\ input = << >>
    /\ output = << >>
    /\ exit = "none"
    /\ run = 0
    /\ file = NoFile
    /\ env = EnvNotRead
    /\ sources = << >>
    /\ state = EmptyDict
    /\ i = 1
    /\ updates_by_school = << >>
    /\ failures = << >>
    /\ recipients = << >>
    /\ j = 1
    /\ outbox = << >>
    /\ loaded = EmptyDict
    /\ outcomes = << >>
    /\ saves = 0
    /\ lastGood = [u \in Urls |-> None]
    /\ outage = [u \in Urls |-> 0]
    /\ total = RetryTotal
    /\ attempts = << >>

\* line 240: school_to_emails = load_subscriptions()
LoadSubscriptions ==
    /\ pc = "call"
    /\ school_to_emails' = load_subscriptions(workbook)
    /\ pc' = "returned"
    /\ UNCHANGED << exit, run, file, env, sources, state, i, updates_by_school,
                    failures, recipients, j, outbox, loaded, outcomes, saves,
                    lastGood, outage, workbook, aux >>

NextSubs == LoadSubscriptions

SpecSubs == InitSubs /\ [][NextSubs]_vars

\* Some row names the address em (blanks around it aside), is ACTIVE
\* whatever the case, and lists the label.
RowSubscribes(wb, em, label) ==
    \E k \in 1..Len(wb.rows) :
        LET row == wb.rows[k]
        IN  /\ em # ""
            /\ StripCell(row[ColumnOf(wb, "email")]) = em
            /\ IsActiveStatus(row[ColumnOf(wb, "status")])
            /\ label \in LabelsIn(row[ColumnOf(wb, "schools")])

MappedAddresses == UNION { school_to_emails[l] : l \in DOMAIN school_to_emails }

\* C15: an address is in the set of a label exactly when some row has that
\* non-empty address, an ACTIVE status and the label in its schools list;
\* other rows contribute nothing.
C15_MappedIffActiveRow ==
    pc = "returned" =>
        \A l \in DOMAIN school_to_emails \cup { "Alpha", "Beta" } :
            \A em \in MappedAddresses \cup Emails :
                (l \in DOMAIN school_to_emails /\ em \in school_to_emails[l])
                    <=> RowSubscribes(workbook, em, l)


-----------------------------------------------------------------------------
(* save_state step by step, with a reader and a crash *)

\* the records a store can hold
StoreRecords ==
    { OkRecord(1, 1), OkRecord(2, 2), [fp |-> 1, ts |-> 2, error |-> "timed out"] }

Stores == UNION { [U -> StoreRecords] : U \in SUBSET Urls }

\* state.json as it is on disk: complete is FALSE while the text in it is
\* not a whole JSON document (nothing, or the document up to some entry)
WholeFile(f) == [exists |-> f.exists, data |-> f.data, complete |-> TRUE]

TornFile(written) == [exists |-> TRUE, data |-> written, complete |-> FALSE]

\* lines 159-163 from another process: json.load raises on a torn document
ReadFile(f) ==
    IF f.exists /\ ~f.complete
    THEN [ok |-> FALSE, data |-> EmptyDict]
    ELSE [ok |-> TRUE, data |-> load_state(f)]

InitSave ==
    /\ pc = "save"
    /\ \E old \in { NoFile } \cup { save_state(st) : st \in Stores } :
          /\ file = WholeFile(old)
          /\ loaded = load_state(old)
    /\ state \in { st \in Stores : DOMAIN loaded \subseteq DOMAIN st }
    /\ output = [ok |-> TRUE, data |-> loaded]
    /\ input = << >>
    /\ exit = "none"
    /\ run = 1
    /\ env = EnvNotRead
    /\ sources = << >>
    /\ school_to_emails = EmptyDict
    /\ i = 1
    /\ updates_by_school = << >>
    /\ failures = << >>
    /\ recipients = << >>
    /\ j = 1
    /\ outbox = << >>
    /\ outcomes = << >>
    /\ saves = 0
    /\ lastGood = [u \in Urls |-> None]
    /\ outage = [u \in Urls |-> 0]
    /\ workbook = NoWorkbook
    /\ total = RetryTotal
    /\ attempts = << >>

SaveFrame ==
    UNCHANGED << run, env, sources, state, school_to_emails, i, updates_by_school,
                 failures, recipients, j, outbox, loaded, outcomes, lastGood,
                 outage, workbook, total, attempts, input >>

\* line 167: open(STATE_FILE, "w") creates or truncates the file
OpenTruncate ==
    /\ pc = "save"
    /\ file' = TornFile(EmptyDict)
    /\ pc' = "dump"
    /\ UNCHANGED << exit, saves, output >>
    /\ SaveFrame

\* line 168: json.dump writes the document piece by piece; a full buffer
\* is flushed to the file before the rest is produced
FlushEntry ==
    /\ pc = "dump"
    /\ \E u \in DOMAIN state \ DOMAIN file.data :
          file' = TornFile(Put(file.data, u, state[u]))
    /\ UNCHANGED << pc, exit, saves, output >>
    /\ SaveFrame

\* leaving the with block of line 167 flushes the rest and closes
CloseFile ==
    /\ pc = "dump"
    /\ file' = WholeFile(save_state(state))
    /\ saves' = saves + 1
    /\ pc' = "saved"
    /\ UNCHANGED << exit, output >>
    /\ SaveFrame

\* the process is killed inside save_state: what was not flushed is lost
Crash ==
    /\ pc = "dump"
    /\ pc' = "dead"
    /\ exit' = "killed"
    /\ UNCHANGED << file, saves, output >>
    /\ SaveFrame

\* another process reads state.json (lines 159-163) at any moment
Read ==
    /\ output' = ReadFile(file)
    /\ output' # output
    /\ UNCHANGED << pc, exit, file, saves >>
    /\ SaveFrame

NextSave == OpenTruncate \/ FlushEntry \/ CloseFile \/ Crash \/ Read

SpecSave == InitSave /\ [][NextSave]_vars

\* C16: what is on disk, and what a reader got from it, is at every moment
\* the whole previous store or the whole new store.
C16_SaveIsAtomic ==
    /\ ReadFile(file).ok
    /\ ReadFile(file).data \in { loaded, state }
    /\ output.ok
    /\ output.data \in { loaded, state }


-----------------------------------------------------------------------------
(* fetch attempt by attempt: the Retry policy of make_session *)

\* line 42
StatusForcelist == { 429, 500, 502, 503, 504 }

\* no response at all: the attempt ran into the timeout of line 135
TimedOut == 0

\* what one attempt can end with
Responses == { 200, 304, 404, 503, TimedOut }

\* Retry(total=3, status_forcelist=..., allowed_methods=["GET"]): a GET is
\* sent again after a listed status or a connect/read error while total
\* is not used up
is_retry(resp, left) == left > 0 /\ (resp = TimedOut \/ resp \in StatusForcelist)

\* line 136 raises for a 4xx or 5xx status (raise_on_status=False hands the
\* last response to it); an exhausted connect/read error raises in line 135
Raises(resp) == resp = TimedOut \/ (resp >= 400 /\ resp < 600)

\* every retry takes one from the total
AfterRetry(left) == left - 1

\* str(e) of what fetch raises for the answers that occur
ErrorText(resp) ==
    CASE resp = TimedOut -> "timed out"
      [] resp = 404      -> "404 Client Error"
      [] OTHER           -> "503 Server Error"

\* r.text of the last answer (line 138): a 304 carries no body
PagesFor(resp) == IF resp = 304 THEN { << >> } ELSE HtmlDocs

\* state.json as an earlier run can have left it: nothing, or both pages
\* seen with the content "item a"
FetchStores ==
    { EmptyDict, [u \in Urls |-> OkRecord(fingerprint(<< "item a" >>), 1)] }

InitFetch ==
    /\ pc = "loop"
    /\ sources \in SourceLists
    /\ state \in FetchStores
    /\ loaded = state
    /\ file = IF state = EmptyDict THEN NoFile ELSE save_state(state)
    /\ lastGood = [u \in Urls |-> GetFp(state, u)]
    /\ i = 1
    /\ total = RetryTotal
    /\ attempts = << >>
    /\ outcomes = << >>
    /\ failures = << >>
    /\ input = << >>
    /\ output = << >>
    /\ exit = "none"
    /\ run = 2
    /\ env = EnvNotRead
    /\ school_to_emails = EmptyDict
    /\ updates_by_school = << >>
    /\ recipients = << >>
    /\ j = 1
    /\ outbox = << >>
    /\ saves = 0
    /\ outage = [u \in Urls |-> 0]
    /\ workbook = NoWorkbook

FetchFrame ==
    UNCHANGED << exit, run, file, env, sources, school_to_emails,
                 recipients, j, outbox, loaded, saves, workbook, input, output >>

LoopFrame == UNCHANGED << state, updates_by_school, lastGood, outage >>

\* lines 245-248: the loop takes the next item and calls fetch(url)
BeginFetch ==
    /\ pc = "loop"
    /\ i <= Len(sources)
    /\ pc' = "request"
    /\ total' = RetryTotal
    /\ attempts' = << >>
    /\ UNCHANGED << i, outcomes, failures >>
    /\ FetchFrame
    /\ LoopFrame

\* line 135: one attempt of SESSION.get ends with a status or a timeout
Attempt ==
    /\ pc = "request"
    /\ Len(attempts) <= RetryTotal + 1
    /\ \E resp \in Responses :
          /\ attempts' = Append(attempts, resp)
          /\ IF is_retry(resp, total)
             THEN pc' = "backoff" /\ total' = AfterRetry(total)
             ELSE pc' = "answered" /\ total' = total
    /\ UNCHANGED << i, outcomes, failures >>
    /\ FetchFrame
    /\ LoopFrame

\* the sleep of backoff_factor=1.2 is over, the GET is sent again
Resend ==
    /\ pc = "backoff"
    /\ pc' = "request"
    /\ UNCHANGED << i, total, attempts, outcomes, failures >>
    /\ FetchFrame
    /\ LoopFrame

\* lines 136-138 and 249-263: fetch returns the page or raises, and the
\* loop body does the rest of its iteration
FetchReturns ==
    /\ pc = "answered"
    /\ LET item   == sources[i]
           last   == attempts[Len(attempts)]
           old_fp == GetFp(state, item.url)
       IN  IF ~Raises(last)
           THEN \E html \in PagesFor(last) :
                   LET fp == fingerprint(normalize_html(html))
                   IN  /\ updates_by_school' =
                              IF IsChange(old_fp, fp)
                              THEN AddUpdate(updates_by_school, item.name, item.url)
                              ELSE updates_by_school
                       /\ state' = Put(state, item.url, OkRecord(fp, run))
                       /\ outcomes' = Append(outcomes,
                                             [name |-> item.name, url |-> item.url,
                                              ok |-> TRUE, attempts |-> attempts])
                       /\ lastGood' = [lastGood EXCEPT ![item.url] = fp]
                       /\ outage' = [outage EXCEPT ![item.url] = 0]
                       /\ failures' = failures
           ELSE /\ failures' = Append(failures,
                                      [name |-> item.name, url |-> item.url,
                                       error |-> ErrorText(last)])
                /\ state' = Put(state, item.url,
                                FailRecord(state, item.url, ErrorText(last), run))
                /\ outcomes' = Append(outcomes,
                                      [name |-> item.name, url |-> item.url,
                                       ok |-> FALSE, attempts |-> attempts])
                /\ outage' = [outage EXCEPT ![item.url] = @ + 1]
                /\ UNCHANGED << updates_by_school, lastGood >>
    /\ i' = i + 1
    /\ pc' = "loop"
    /\ UNCHANGED << total, attempts >>
    /\ FetchFrame

\* line 265 is reached
FetchLoopDone ==
    /\ pc = "loop"
    /\ i > Len(sources)
    /\ pc' = "save"
    /\ UNCHANGED << i, total, attempts, outcomes, failures >>
    /\ FetchFrame
    /\ LoopFrame

NextFetch == BeginFetch \/ Attempt \/ Resend \/ FetchReturns \/ FetchLoopDone

SpecFetch == InitFetch /\ [][NextFetch]_vars

\* C17: while the fetch of one source waits for an answer or sleeps before
\* a retry, the fetch of the next source can start.
C17_WaitingDoesNotBlockOthers ==
    (pc \in { "request", "backoff" } /\ i < Len(sources)) => ENABLED BeginFetch

\* C19: a fetch makes at most 1 + 3 attempts; only a timeout or a status of
\* the forcelist is followed by another attempt; a fetch whose last answer
\* is a status outside 200..299 is recorded as failed.
C19_BoundedAttemptsThenFailure ==
    /\ Len(attempts) <= RetryTotal + 1
    /\ \A k \in 1..Len(outcomes) :
          LET a    == outcomes[k].attempts
              last == a[Len(a)]
          IN  /\ Len(a) <= RetryTotal + 1
              /\ \A n \in 1..(Len(a) - 1) : a[n] = TimedOut \/ a[n] \in StatusForcelist
              /\ (last # TimedOut /\ ~(last >= 200 /\ last < 300)) => ~outcomes[k].ok

-----------------------------------------------------------------------------
(* The records of the store *)

\* some fetch of the url has been made, some fetch of it has succeeded
Fetched(u) == lastGood[u] # None \/ outage[u] > 0

Succeeded(u) == lastGood[u] # None

\* C18 as stated: every record, in memory or in state.json, is of a url
\* that was fetched successfully and carries a fingerprint.
C18_EveryRecordHasFingerprint ==
    /\ \A u \in DOMAIN state : Succeeded(u) /\ state[u].fp # None
    /\ \A u \in DOMAIN file.data : Succeeded(u) /\ file.data[u].fp # None

\* C18, amended: a record exists only for a url that has been fetched,
\* successfully or not; the record in memory carries a fingerprint exactly
\* when some fetch of the url has succeeded, and the one in state.json
\* carries none unless some fetch has.
C18_RecordOnlyForFetchedUrl ==
    /\ \A u \in DOMAIN state :
          /\ Fetched(u)
          /\ state[u].fp # None <=> Succeeded(u)
    /\ \A u \in DOMAIN file.data :
          /\ Fetched(u)
          /\ file.data[u].fp # None => Succeeded(u)

C18_Witness ==
    \E u \in DOMAIN file.data :
        /\ file.data[u].fp = None
        /\ ~Succeeded(u)
        /\ outage[u] >= 2
        /\ \E v \in DOMAIN file.data : file.data[v].fp # None

\* C20: no step removes a url from state.json, and no step changes the
\* record of a url that the running process does not have in its source
\* list.
C20_RecordsKeptStaleUntouched ==
    [][ /\ DOMAIN file.data \subseteq DOMAIN file'.data
        /\ \A u \in DOMAIN file.data :
              u \notin { sources[k].url : k \in 1..Len(sources) }
                  => file'.data[u] = file.data[u] ]_vars

C20_Witness ==
    /\ saves = 1
    /\ pc # "idle"
    /\ run = 3
    /\ \E u \in DOMAIN file.data :
          /\ u \notin { sources[k].url : k \in 1..Len(sources) }
          /\ file.data[u].ts < run - 1
    /\ \E k \in 1..Len(sources) : sources[k].url \in DOMAIN file.data


=============================================================================
